---- MODULE Spec2Model ----
(***************************************************************************)
(* Model of src/demo_progress.py: a script that prints the progress of a   *)
(* simulated task on standard output, flushing after every line.           *)
(*                                                                         *)
(* A run is one invocation of the script.  Runs are launched one after the *)
(* other (re-running the script), each with its own argument vector and    *)
(* its own kind of standard output (terminal or pipe).  The position of a  *)
(* run in the script is pc[r], named after the source line it is about to  *)
(* execute.  Standard output is the pair buf[r] (lines written, still in   *)
(* the stream's buffer) and out[r] (lines delivered to the reader).        *)
(*                                                                         *)
(* The string literals of the script are Chinese; the model carries an     *)
(* English rendering of each, one distinct string per distinct literal.    *)
(***************************************************************************)
EXTENDS Integers, Sequences, FiniteSets

VARIABLES pc, argv, tty, called, it, i, item, percentage, message, buf, out, waits

vars == <<pc, argv, tty, called, it, i, item, percentage, message, buf, out, waits>>

\* ---------------------------------------------------------------- bounds
MaxArgs == 2

\* a run and its re-run: every property here is about one run or about a
\* pair of runs, and runs share no state
Runs == 1..2
Tokens == {"data", "x"}
ScriptName == "demo_progress.py"
ArgVectors == UNION {{<<ScriptName>> \o s : s \in [1..n -> Tokens]} : n \in 0..MaxArgs}

\* ------------------------------------------------------ program constants
total_steps == 10

checkpoint_step == 10

data_items == <<"process user data", "validate data format", "clean invalid data",
                "compute statistics", "generate report", "save results to database",
                "send notification mail", "clean temporary files", "update cache",
                "finish task">>

\* --------------------------------------------------------- pure functions
\* len(sys.argv) > 1 and sys.argv[1] == "data"; sys.argv[k] is a[k + 1]
IsDataMode_AnyPos(a) == \E k \in 2..Len(a) : a[k] = "data"

IsDataMode(a) == Len(a) > 1 /\ a[2] = "data"

\* range(lo, hi) as the sequence it yields
range_short(lo, hi) == [k \in 1..(hi - lo - 1) |-> lo + k - 1]

range(lo, hi) == [k \in 1..(hi - lo) |-> lo + k - 1]

\* enumerate(s, start) as the sequence of pairs it yields
enumerate_tail(s, start) == [k \in 1..(Len(s) - 1) |-> <<start + k - 1, s[k + 1]>>]

enumerate(s, start) == [k \in 1..Len(s) |-> <<start + k - 1, s[k]>>]

\* true division a / b, kept as an exact fraction (the binary64 quotient
\* differs from it by less than 1e-13, far below the rounding step of .1f)
FloorDiv(a, b) == [num |-> a \div b, den |-> 1]

TrueDiv(a, b) == [num |-> a, den |-> b]

Times(q, k) == [num |-> q.num * k, den |-> q.den]

\* format spec .1f: round to the nearest tenth, print integer part and digit
Format1f(q) ==
    LET tenths == (20 * q.num + q.den) \div (2 * q.den)
    IN  <<tenths \div 10, tenths % 10>>

\* if i == 10
IsCheckpoint_Half(n) == n % 5 = 0

IsCheckpoint(n) == n = checkpoint_step

\* ------------------------------------------------------------ output lines
TextLine(k, p, m) == [kind |-> k, pct |-> p, msg |-> m]

LT_StartLine == TextLine("start", <<>>, <<"starting long task...">>)
LT_ProgressLine(p, m) == TextLine("progress", Format1f(p), m)
LT_CheckpointLine == TextLine("checkpoint", <<>>, <<"checkpoint: task going well">>)
LT_DoneLine == TextLine("complete", <<>>, <<"task finished!">>)
DP_StartLine == TextLine("start", <<>>, <<"starting data processing task...">>)
DP_ProgressLine(p, m) == TextLine("progress", Format1f(p), <<m>>)
DP_DoneLine == TextLine("complete", <<>>, <<"data processing finished!">>)

\* ------------------------------------------------------------ stdout stream
\* print(line): the line enters the stream buffer; a terminal is line
\* buffered, so the newline that print appends flushes the buffer at once
Write(r, line, next) ==
    /\ IF tty[r]
       THEN /\ out' = [out EXCEPT ![r] = out[r] \o buf[r] \o <<line>>]
            /\ buf' = [buf EXCEPT ![r] = <<>>]
       ELSE /\ buf' = [buf EXCEPT ![r] = Append(buf[r], line)]
            /\ out' = out
    /\ pc' = [pc EXCEPT ![r] = next]

\* sys.stdout.flush()
Flush(r, next) ==
    /\ out' = [out EXCEPT ![r] = out[r] \o buf[r]]
    /\ buf' = [buf EXCEPT ![r] = <<>>]
    /\ pc' = [pc EXCEPT ![r] = next]

Goto(r, next) == pc' = [pc EXCEPT ![r] = next]

\* ------------------------------------------------------------------- Init
Init ==
    /\ pc = [r \in Runs |-> "idle"]
    /\ argv = [r \in Runs |-> <<ScriptName>>]
    /\ tty = [r \in Runs |-> FALSE]
    /\ called = [r \in Runs |-> <<>>]
    /\ it = [r \in Runs |-> 0]
    /\ i = [r \in Runs |-> 0]
    /\ item = [r \in Runs |-> ""]
    /\ percentage = [r \in Runs |-> TrueDiv(0, 1)]
    /\ message = [r \in Runs |-> <<>>]
    /\ buf = [r \in Runs |-> <<>>]
    /\ out = [r \in Runs |-> <<>>]
    /\ waits = [r \in Runs |-> 0]

\* ---------------------------------------------------------------- __main__
\* the script is started with an argument vector, on a terminal or a pipe
Launch(r) ==
    /\ pc[r] = "idle"
    /\ IF r = 1 THEN TRUE ELSE pc[r - 1] = "done"
    /\ \E a \in ArgVectors, t \in BOOLEAN :
          /\ argv' = [argv EXCEPT ![r] = a]
          /\ tty' = [tty EXCEPT ![r] = t]
    /\ Goto(r, "main")
    /\ UNCHANGED <<called, it, i, item, percentage, message, buf, out, waits>>

Main(r) ==
    /\ pc[r] = "main"
    /\ IF IsDataMode(argv[r])
       THEN /\ called' = [called EXCEPT ![r] = Append(called[r], "simulate_data_processing")]
            /\ Goto(r, "dp52")
       ELSE /\ called' = [called EXCEPT ![r] = Append(called[r], "simulate_long_task")]
            /\ Goto(r, "lt15")
    /\ UNCHANGED <<argv, tty, it, i, item, percentage, message, buf, out, waits>>

\* the function returned: the interpreter flushes stdout and exits
Exit(r) ==
    /\ pc[r] = "exit"
    /\ Flush(r, "done")
    /\ UNCHANGED <<argv, tty, called, it, i, item, percentage, message, waits>>

\* ------------------------------------------------------ simulate_long_task
LT_WriteStart(r) ==
    /\ pc[r] = "lt15"
    /\ Write(r, LT_StartLine, "lt16")
    /\ UNCHANGED <<argv, tty, called, it, i, item, percentage, message, waits>>

LT_FlushStart(r) ==
    /\ pc[r] = "lt16"
    /\ Flush(r, "lt18")
    /\ UNCHANGED <<argv, tty, called, it, i, item, percentage, message, waits>>

LT_For(r) ==
    /\ pc[r] = "lt18"
    /\ LET steps == range(1, total_steps + 1)
       IN  IF it[r] < Len(steps)
           THEN /\ it' = [it EXCEPT ![r] = it[r] + 1]
                /\ i' = [i EXCEPT ![r] = steps[it[r] + 1]]
                /\ Goto(r, "lt20")
           ELSE /\ UNCHANGED <<it, i>>
                /\ Goto(r, "lt34")
    /\ UNCHANGED <<argv, tty, called, item, percentage, message, buf, out, waits>>

LT_Sleep(r) ==
    /\ pc[r] = "lt20"
    /\ waits' = [waits EXCEPT ![r] = waits[r] + 1]
    /\ Goto(r, "lt23")
    /\ UNCHANGED <<argv, tty, called, it, i, item, percentage, message, buf, out>>

LT_Compute_Argv(r) ==
    /\ pc[r] = "lt23"
    /\ percentage' = [percentage EXCEPT ![r] = Times(TrueDiv(i[r], total_steps), 100)]
    /\ message' = [message EXCEPT ![r] = <<"processing step", i[r], Len(argv[r])>>]
    /\ Goto(r, "lt26")
    /\ UNCHANGED <<argv, tty, called, it, i, item, buf, out, waits>>

LT_Compute(r) ==
    /\ pc[r] = "lt23"
    /\ percentage' = [percentage EXCEPT ![r] = Times(TrueDiv(i[r], total_steps), 100)]
    /\ message' = [message EXCEPT ![r] = <<"processing step", i[r], total_steps>>]
    /\ Goto(r, "lt26")
    /\ UNCHANGED <<argv, tty, called, it, i, item, buf, out, waits>>

LT_WriteProgress(r) ==
    /\ pc[r] = "lt26"
    /\ Write(r, LT_ProgressLine(percentage[r], message[r]), "lt27")
    /\ UNCHANGED <<argv, tty, called, it, i, item, percentage, message, waits>>

LT_FlushProgress_Missing(r) ==
    /\ pc[r] = "lt27"
    /\ Goto(r, "lt30")
    /\ UNCHANGED <<argv, tty, called, it, i, item, percentage, message, buf, out, waits>>

LT_FlushProgress(r) ==
    /\ pc[r] = "lt27"
    /\ Flush(r, "lt30")
    /\ UNCHANGED <<argv, tty, called, it, i, item, percentage, message, waits>>

LT_Check(r) ==
    /\ pc[r] = "lt30"
    /\ IF IsCheckpoint(i[r]) THEN Goto(r, "lt31") ELSE Goto(r, "lt18")
    /\ UNCHANGED <<argv, tty, called, it, i, item, percentage, message, buf, out, waits>>

LT_WriteCheckpoint(r) ==
    /\ pc[r] = "lt31"
    /\ Write(r, LT_CheckpointLine, "lt32")
    /\ UNCHANGED <<argv, tty, called, it, i, item, percentage, message, waits>>

LT_FlushCheckpoint(r) ==
    /\ pc[r] = "lt32"
    /\ Flush(r, "lt18")
    /\ UNCHANGED <<argv, tty, called, it, i, item, percentage, message, waits>>

LT_WriteDone(r) ==
    /\ pc[r] = "lt34"
    /\ Write(r, LT_DoneLine, "lt35")
    /\ UNCHANGED <<argv, tty, called, it, i, item, percentage, message, waits>>

LT_FlushDone(r) ==
    /\ pc[r] = "lt35"
    /\ Flush(r, "exit")
    /\ UNCHANGED <<argv, tty, called, it, i, item, percentage, message, waits>>

\* ------------------------------------------------ simulate_data_processing
DP_WriteStart(r) ==
    /\ pc[r] = "dp52"
    /\ Write(r, DP_StartLine, "dp53")
    /\ UNCHANGED <<argv, tty, called, it, i, item, percentage, message, waits>>

DP_FlushStart(r) ==
    /\ pc[r] = "dp53"
    /\ Flush(r, "dp55")
    /\ UNCHANGED <<argv, tty, called, it, i, item, percentage, message, waits>>

DP_For(r) ==
    /\ pc[r] = "dp55"
    /\ LET pairs == enumerate(data_items, 1)
       IN  IF it[r] < Len(pairs)
           THEN /\ it' = [it EXCEPT ![r] = it[r] + 1]
                /\ i' = [i EXCEPT ![r] = pairs[it[r] + 1][1]]
                /\ item' = [item EXCEPT ![r] = pairs[it[r] + 1][2]]
                /\ Goto(r, "dp56")
           ELSE /\ UNCHANGED <<it, i, item>>
                /\ Goto(r, "dp62")
    /\ UNCHANGED <<argv, tty, called, percentage, message, buf, out, waits>>

DP_Sleep(r) ==
    /\ pc[r] = "dp56"
    /\ waits' = [waits EXCEPT ![r] = waits[r] + 1]
    /\ Goto(r, "dp58")
    /\ UNCHANGED <<argv, tty, called, it, i, item, percentage, message, buf, out>>

DP_Compute(r) ==
    /\ pc[r] = "dp58"
    /\ percentage' = [percentage EXCEPT ![r] = Times(TrueDiv(i[r], Len(data_items)), 100)]
    /\ Goto(r, "dp59")
    /\ UNCHANGED <<argv, tty, called, it, i, item, message, buf, out, waits>>

DP_WriteProgress(r) ==
    /\ pc[r] = "dp59"
    /\ Write(r, DP_ProgressLine(percentage[r], item[r]), "dp60")
    /\ UNCHANGED <<argv, tty, called, it, i, item, percentage, message, waits>>

DP_FlushProgress(r) ==
    /\ pc[r] = "dp60"
    /\ Flush(r, "dp55")
    /\ UNCHANGED <<argv, tty, called, it, i, item, percentage, message, waits>>

DP_WriteDone(r) ==
    /\ pc[r] = "dp62"
    /\ Write(r, DP_DoneLine, "dp63")
    /\ UNCHANGED <<argv, tty, called, it, i, item, percentage, message, waits>>

DP_FlushDone(r) ==
    /\ pc[r] = "dp63"
    /\ Flush(r, "exit")
    /\ UNCHANGED <<argv, tty, called, it, i, item, percentage, message, waits>>

\* ------------------------------------------------------------------- Next
Next ==
    \E r \in Runs :
        \/ Launch(r)
        \/ Main(r)
        \/ Exit(r)
        \/ LT_WriteStart(r)
        \/ LT_FlushStart(r)
        \/ LT_For(r)
        \/ LT_Sleep(r)
        \/ LT_Compute(r)
        \/ LT_WriteProgress(r)
        \/ LT_FlushProgress(r)
        \/ LT_Check(r)
        \/ LT_WriteCheckpoint(r)
        \/ LT_FlushCheckpoint(r)
        \/ LT_WriteDone(r)
        \/ LT_FlushDone(r)
        \/ DP_WriteStart(r)
        \/ DP_FlushStart(r)
        \/ DP_For(r)
        \/ DP_Sleep(r)
        \/ DP_Compute(r)
        \/ DP_WriteProgress(r)
        \/ DP_FlushProgress(r)
        \/ DP_WriteDone(r)
        \/ DP_FlushDone(r)

Spec == Init /\ [][Next]_vars

\* The script is a single sequential thread whose every statement returns
\* (a sleep ends after its interval), so a run that can step does step.
FairSpec == Init /\ [][Next]_vars /\ WF_vars(Next)

\* ------------------------------------------------- observations of a run
Written(r) == out[r] \o buf[r]

OfKind(s, k) == SelectSeq(s, LAMBDA l : l.kind = k)

Positions(s, k) == {n \in 1..Len(s) : s[n].kind = k}

IsJSON(l) == l.kind \in {"Progress", "Result"}

Finished(r) == pc[r] = "done"

RanLongTask(r) == called[r] = <<"simulate_long_task">>

RanDataProcessing(r) == called[r] = <<"simulate_data_processing">>

\* positions of a run: about to sleep, about to write a line, inside each function
SleepPcs == {"lt20", "dp56"}

WritePcs == {"lt15", "lt26", "lt31", "lt34", "dp52", "dp59", "dp62"}

LongTaskPcs == {"lt15", "lt16", "lt18", "lt20", "lt23", "lt26", "lt27", "lt30",
                "lt31", "lt32", "lt34", "lt35"}

DataProcessingPcs == {"dp52", "dp53", "dp55", "dp56", "dp58", "dp59", "dp60",
                      "dp62", "dp63"}

\* the first positional argument is present and equals "data"
FirstArgIsData(r) == Len(argv[r]) >= 2 /\ argv[r][2] = "data"

\* C1: a finished run of the default task simulation has delivered exactly
\* one JSON Progress line per i in 1..10, with done = i and size = 10, in
\* increasing order of i.
C1_ProgressJSON ==
    \A r \in Runs :
        (Finished(r) /\ RanLongTask(r)) =>
            LET js == OfKind(out[r], "Progress")
            IN  /\ Len(js) = 10
                /\ \A k \in 1..Len(js) : js[k].done = k /\ js[k].size = 10

\* C2: a finished run of the default task simulation has delivered exactly
\* one JSON Result line, and no Progress line follows it.
C2_OneResultAfterProgress ==
    \A r \in Runs :
        (Finished(r) /\ RanLongTask(r)) =>
            /\ Cardinality(Positions(out[r], "Result")) = 1
            /\ \A n \in Positions(out[r], "Result") :
                  \A m \in Positions(out[r], "Progress") : m < n

\* C6: the last line delivered by a finished run of the default task
\* simulation is the Result line with pages = 10 and words = 100.
C6_FinalLineIsResult ==
    \A r \in Runs :
        (Finished(r) /\ RanLongTask(r)) =>
            LET o == out[r]
            IN  /\ Len(o) > 0
                /\ o[Len(o)].kind = "Result"
                /\ o[Len(o)].pages = 10
                /\ o[Len(o)].words = 100

\* C3: whenever a run is about to sleep, about to write its next line, or
\* has terminated, no written line is left in the output buffer; the buffer
\* never holds more than one line.
C3_FlushedAtEveryWait ==
    \A r \in Runs :
        /\ Len(buf[r]) <= 1
        /\ pc[r] \in SleepPcs \cup WritePcs \cup {"done"} => buf[r] = <<>>

\* a run on a pipe is sleeping in its third iteration with every line
\* written so far delivered; a finished data run on a pipe precedes it
C3_Witness ==
    /\ Finished(1) /\ RanDataProcessing(1) /\ ~tty[1]
    /\ pc[2] = "lt20" /\ ~tty[2] /\ i[2] = 3 /\ Len(out[2]) = 3 /\ buf[2] = <<>>

\* C4: a run of simulate_data_processing never writes a JSON line, its k-th
\* progress line carries the k-th label of data_items, and when it has
\* finished it has delivered exactly 10 progress lines.
C4_DataModeLines ==
    \A r \in Runs :
        RanDataProcessing(r) =>
            LET pl == OfKind(Written(r), "progress")
            IN  /\ \A n \in 1..Len(Written(r)) : ~IsJSON(Written(r)[n])
                /\ Len(pl) <= 10
                /\ \A k \in 1..Len(pl) : pl[k].msg = <<data_items[k]>>
                /\ Finished(r) => Len(OfKind(out[r], "progress")) = 10

C4_Witness ==
    /\ Finished(1) /\ RanDataProcessing(1)
    /\ Len(out[1]) = 12
    /\ out[1][11].msg = <<"finish task">>

\* C5: once a run has selected its mode, exactly one simulation has been
\* called: simulate_data_processing if the first positional argument is
\* present and equals "data", simulate_long_task otherwise; the run then
\* executes only lines of the simulation it called.
C5_ModeSelection ==
    \A r \in Runs :
        /\ pc[r] \in {"idle", "main"} => called[r] = <<>>
        /\ pc[r] \notin {"idle", "main"} =>
              /\ Len(called[r]) = 1
              /\ RanDataProcessing(r) <=> FirstArgIsData(r)
              /\ RanLongTask(r) <=> ~FirstArgIsData(r)
        /\ pc[r] \in LongTaskPcs => RanLongTask(r)
        /\ pc[r] \in DataProcessingPcs => RanDataProcessing(r)

\* "data" only at a later position ran the default simulation; a first
\* argument "data" ran the data simulation
C5_Witness ==
    /\ Finished(1) /\ argv[1] = <<ScriptName, "x", "data">> /\ RanLongTask(1)
    /\ Finished(2) /\ argv[2] = <<ScriptName, "data", "x">> /\ RanDataProcessing(2)

\* C7: in either simulation the k-th progress line shows 100*k/10 rounded to
\* one decimal, which is 10*k with decimal digit 0; the last progress line
\* of a finished run shows 100.0.
C7_Percentage ==
    \A r \in Runs :
        LET pl == OfKind(Written(r), "progress")
        IN  /\ \A k \in 1..Len(pl) :
                  /\ pl[k].pct = <<10 * k, 0>>
                  /\ 10 * pl[k].pct[1] + pl[k].pct[2] = (2000 * k + 10) \div 20
            /\ \A k \in 1..(Len(pl) - 1) : pl[k].pct[1] < pl[k + 1].pct[1]
            /\ Finished(r) => Len(pl) > 0 /\ pl[Len(pl)].pct = <<100, 0>>

C7_Witness ==
    /\ Finished(1) /\ RanLongTask(1) /\ out[1][11].pct = <<100, 0>>
    /\ Finished(2) /\ RanDataProcessing(2) /\ out[2][4].pct = <<30, 0>>

\* C8: two finished runs whose argument vectors select the same mode have
\* delivered the same sequence of lines, whatever else differs between them
\* (the other arguments, terminal or pipe).
C8_Deterministic ==
    \A r1, r2 \in Runs :
        (Finished(r1) /\ Finished(r2) /\ (FirstArgIsData(r1) <=> FirstArgIsData(r2)))
            => out[r1] = out[r2]

C8_Witness ==
    /\ Finished(1) /\ Finished(2)
    /\ argv[1] = <<ScriptName>> /\ argv[2] = <<ScriptName, "x", "data">>
    /\ tty[1] /\ ~tty[2]
    /\ Len(out[2]) = 13

\* C9: in the default task simulation no checkpoint line is written while
\* i < total_steps; at most one is ever written, it directly follows the
\* progress line of step total_steps; a finished run has written exactly
\* one, directly before the completion line.
C9_CheckpointOnce ==
    \A r \in Runs :
        RanLongTask(r) =>
            LET w == Written(r)
                cp == Positions(w, "checkpoint")
            IN  /\ i[r] < total_steps => cp = {}
                /\ Cardinality(cp) <= 1
                /\ \A n \in cp :
                      /\ n > 1
                      /\ w[n - 1].kind = "progress"
                      /\ w[n - 1].msg = <<"processing step", total_steps, total_steps>>
                      /\ Len(OfKind(w, "progress")) = total_steps
                      /\ n < Len(w) => w[n + 1].kind = "complete"
                /\ Finished(r) => Cardinality(cp) = 1 /\ Len(w) - 1 \in cp

C9_Witness ==
    /\ Finished(1) /\ RanLongTask(1)
    /\ out[1][12].kind = "checkpoint" /\ out[1][13].kind = "complete"

\* counters of a run: steps, waits, progress and completion lines
C10_Counters ==
    \A r \in Runs :
        LET w == Written(r)
            np == Len(OfKind(w, "progress"))
        IN  /\ i[r] \in 0..10
            /\ waits[r] = IF pc[r] \in SleepPcs THEN i[r] - 1 ELSE i[r]
            /\ np \in {waits[r] - 1, waits[r]}
            /\ waits[r] >= 1 => w[1].kind = "start"
            /\ Cardinality(Positions(w, "complete")) <= 1
            /\ \A n \in Positions(w, "complete") : np = 10 /\ n = Len(w)
            /\ Finished(r) =>
                  /\ i[r] = 10 /\ waits[r] = 10 /\ np = 10
                  /\ Cardinality(Positions(w, "complete")) = 1

\* one step of a run: the counter moves by at most one, a progress line
\* is written only after its wait
C10_Steps ==
    \A r \in Runs :
        /\ i'[r] = i[r] \/ i'[r] = i[r] + 1
        /\ Len(OfKind(Written(r), "progress"))' = Len(OfKind(Written(r), "progress")) + 1
              => waits[r] = Len(OfKind(Written(r), "progress")) + 1

\* C10: every launched run terminates; its step counter only moves by +1 and
\* never exceeds 10; the start line is written before the first wait; the
\* k-th progress line is written after exactly k waits; a finished run has
\* waited 10 times, written 10 progress lines and exactly one completion
\* line, after all of them.
C10_Terminates ==
    /\ []C10_Counters
    /\ [][C10_Steps]_vars
    /\ \A r \in Runs : (pc[r] = "main") ~> (pc[r] = "done")

C10_Witness ==
    /\ Finished(1) /\ RanLongTask(1) /\ waits[1] = 10
    /\ Finished(2) /\ RanDataProcessing(2) /\ waits[2] = 10

====
